---- MODULE Spec2Model ----
(***************************************************************************)
(* Model of the gazetteer fuzzy-matching engine of ontology-ner:           *)
(*   - TrieNode / search / search_stack   (pyner/features/gazetteer.py)    *)
(*   - Gazetteer and AllGazetteer          (pyner/features/gazetteer.py)   *)
(*   - Cache and the feature generators    (pyner/features/features.py)    *)
(*     that put a Cache in front of a gazetteer query                      *)
(*   - the earlier Gazetteer               (features/gazetteer.py)         *)
(* Python strings are sequences of one-character strings.  Python values   *)
(* that reach a caller are records [type, val] so that None, 0, 0.0, ""    *)
(* and "NONE" stay distinct.                                               *)
(***************************************************************************)
EXTENDS Integers, Sequences, FiniteSets, TLC

VARIABLES trie, inserted, found, store, max_size, arrival, lastOp, gz, source, qr, generator

vars == <<trie, inserted, found, store, max_size, arrival, lastOp, gz, source, qr, generator>>

trieVars == <<trie, inserted, found>>
cacheVars == <<store, max_size, arrival, lastOp>>
gazVars == <<gz, source, qr, generator>>

(***************************************************************************)
(* Bounds of the model.                                                    *)
(***************************************************************************)
MaxWordLen == 2
MaxInserts == 2
MaxQueryLen == 3
MaxCost == 2

Letters == {"a", "b"}

StringsUpTo(n) == UNION {[1..k -> Letters] : k \in 0..n}

(***************************************************************************)
(* Small helpers.                                                          *)
(***************************************************************************)
Min2(x, y) == IF x <= y THEN x ELSE y

Min3(x, y, z) == Min2(x, Min2(y, z))

MinOfSeq(s) == CHOOSE m \in {s[i] : i \in 1..Len(s)} : \A i \in 1..Len(s) : m <= s[i]

ToSet(s) == {s[i] : i \in 1..Len(s)}

(***************************************************************************)
(* Python values handed to callers.                                        *)
(***************************************************************************)
PyNone == [type |-> "NoneType", val |-> <<>>]

PyStr(s) == [type |-> "str", val |-> s]

PyInt(n) == [type |-> "int", val |-> <<n>>]

PyBool(b) == [type |-> "bool", val |-> <<b>>]

(* An int beyond the integers of the model, held by its sign and its       *)
(* decimal digits.                                                         *)
PyLong(negative, digits) == [type |-> "int", negative |-> negative, digits |-> digits]

IsLong(v) == v.type = "int" /\ "digits" \in DOMAIN v

(* A float n/d, kept in lowest terms: two quotients of small integers are  *)
(* the same double exactly when they are the same fraction.                *)
PyFloat(n, d) == [type |-> "float", val |-> <<n, d>>]

(* Python's truth value of a value: None, 0, 0.0, "" and False are false.  *)
Truthy(v) ==
    CASE v.type = "NoneType" -> FALSE
      [] v.type = "int" -> IsLong(v) \/ v.val[1] # 0
      [] v.type = "float" -> v.val[1] # 0
      [] v.type = "str" -> Len(v.val) > 0
      [] v.type = "bool" -> v.val[1]

(***************************************************************************)
(* TrieNode.  A trie is a function from node (named by the path of edge    *)
(* letters that leads to it) to the node's fields: word is <<>> for None   *)
(* and <<w>> for the string w; children is the list of the keys of the     *)
(* children dict in insertion order (the dict's iteration order).          *)
(***************************************************************************)
None == <<>>

TrieNode == [word |-> None, children |-> <<>>]

EmptyTrie == (<<>> :> TrieNode)

(* node.children[letter] = TrieNode() without the test for an existing child *)
RECURSIVE insertFrom_always_new(_, _, _, _)
insertFrom_always_new(t, node, word, i) ==
    IF i > Len(word)
    THEN [t EXCEPT ![node].word = <<word>>]
    ELSE LET letter == word[i]
             child == Append(node, letter)
             t1 == IF \A j \in 1..Len(t[node].children) : t[node].children[j] # letter
                   THEN [t EXCEPT ![node].children = Append(@, letter)]
                   ELSE t
         IN insertFrom_always_new((child :> TrieNode) @@ t1, child, word, i + 1)

(* node.word = word inside the loop: every node on the path is marked *)
RECURSIVE insertFrom_marks_every_node(_, _, _, _)
insertFrom_marks_every_node(t, node, word, i) ==
    IF i > Len(word)
    THEN [t EXCEPT ![node].word = <<word>>]
    ELSE LET letter == word[i]
             child == Append(node, letter)
             t1 == IF \A j \in 1..Len(t[node].children) : t[node].children[j] # letter
                   THEN [t EXCEPT ![node].children = Append(@, letter)] @@ (child :> TrieNode)
                   ELSE t
         IN insertFrom_marks_every_node([t1 EXCEPT ![child].word = <<word>>], child, word, i + 1)

RECURSIVE insertFrom(_, _, _, _)
insertFrom(t, node, word, i) ==
    IF i > Len(word)
    THEN [t EXCEPT ![node].word = <<word>>]
    ELSE LET letter == word[i]
             child == Append(node, letter)
             t1 == IF \A j \in 1..Len(t[node].children) : t[node].children[j] # letter
                   THEN [t EXCEPT ![node].children = Append(@, letter)] @@ (child :> TrieNode)
                   ELSE t
         IN insertFrom(t1, child, word, i + 1)

insert(t, word) == insertFrom(t, <<>>, word, 1)

(***************************************************************************)
(* search / search_stack.                                                  *)
(***************************************************************************)
(* Columns are 0-based in the source and 1-based here: the source's          *)
(* current_row[column - 1] is current_row[column], word[column - 1] is     *)
(* word[column].                                                           *)
replace_cost_always_one(letter, word, previous_row, column) ==
    previous_row[column] + 1

replace_cost(letter, word, previous_row, column) ==
    IF word[column] # letter
    THEN previous_row[column] + 1
    ELSE previous_row[column]

RECURSIVE rowFrom(_, _, _, _, _)
rowFrom(letter, word, previous_row, current_row, column) ==
    IF column > Len(word)
    THEN current_row
    ELSE LET insert_cost == current_row[column] + 1
             delete_cost == previous_row[column + 1] + 1
         IN rowFrom(letter, word, previous_row,
                    Append(current_row, Min3(insert_cost, delete_cost,
                                             replace_cost(letter, word, previous_row, column))),
                    column + 1)

(* current_row = [previous_row[0] - 1] instead of [previous_row[0] + 1] *)
NextRow_counting_down(letter, word, previous_row) ==
    rowFrom(letter, word, previous_row, <<previous_row[1] - 1>>, 1)

NextRow(letter, word, previous_row) ==
    rowFrom(letter, word, previous_row, <<previous_row[1] + 1>>, 1)

FirstRow(word) == [j \in 1..(Len(word) + 1) |-> j - 1]

StackEntries(t, node, row) ==
    [j \in 1..Len(t[node].children) |->
        [node |-> Append(node, t[node].children[j]),
         letter |-> t[node].children[j],
         previous_row |-> row]]

(* the children are pushed whatever the row *)
Expand_always(t, node, current_row, max_cost) == StackEntries(t, node, current_row)

Expand(t, node, current_row, max_cost) ==
    IF MinOfSeq(current_row) <= max_cost
    THEN StackEntries(t, node, current_row)
    ELSE <<>>

(* current_row[-1] == max_cost instead of <= *)
Report_exact(t, node, current_row, max_cost, results) ==
    IF current_row[Len(current_row)] = max_cost /\ t[node].word # None
    THEN Append(results, <<t[node].word[1], current_row[Len(current_row)]>>)
    ELSE results

Report(t, node, current_row, max_cost, results) ==
    IF current_row[Len(current_row)] <= max_cost /\ t[node].word # None
    THEN Append(results, <<t[node].word[1], current_row[Len(current_row)]>>)
    ELSE results

RECURSIVE search_stack(_, _, _, _, _)
search_stack(t, stack, word, max_cost, results) ==
    IF stack = <<>>
    THEN results
    ELSE LET top == stack[Len(stack)]
             rest == SubSeq(stack, 1, Len(stack) - 1)
             current_row == NextRow(top.letter, word, top.previous_row)
         IN search_stack(t,
                         rest \o Expand(t, top.node, current_row, max_cost),
                         word, max_cost,
                         Report(t, top.node, current_row, max_cost, results))

RECURSIVE searchFrom(_, _, _, _, _, _)
searchFrom(t, word, max_cost, current_row, results, k) ==
    IF k > Len(t[<<>>].children)
    THEN results
    ELSE LET letter == t[<<>>].children[k]
             stack == <<[node |-> <<letter>>, letter |-> letter, previous_row |-> current_row]>>
         IN searchFrom(t, word, max_cost, current_row,
                       search_stack(t, stack, word, max_cost, results), k + 1)

search(t, word, max_cost) == searchFrom(t, word, max_cost, FirstRow(word), <<>>, 1)

(* The rows the same traversal computes, in the order it computes them:    *)
(* one [node, row] per node popped from the stack.                         *)
RECURSIVE search_stack_rows(_, _, _, _, _)
search_stack_rows(t, stack, word, max_cost, rows) ==
    IF stack = <<>>
    THEN rows
    ELSE LET top == stack[Len(stack)]
             rest == SubSeq(stack, 1, Len(stack) - 1)
             current_row == NextRow(top.letter, word, top.previous_row)
         IN search_stack_rows(t,
                              rest \o Expand(t, top.node, current_row, max_cost),
                              word, max_cost,
                              Append(rows, [node |-> top.node, row |-> current_row]))

RECURSIVE searchFrom_rows(_, _, _, _, _, _)
searchFrom_rows(t, word, max_cost, current_row, rows, k) ==
    IF k > Len(t[<<>>].children)
    THEN rows
    ELSE LET letter == t[<<>>].children[k]
             stack == <<[node |-> <<letter>>, letter |-> letter, previous_row |-> current_row]>>
         IN searchFrom_rows(t, word, max_cost, current_row,
                            search_stack_rows(t, stack, word, max_cost, rows), k + 1)

search_rows(t, word, max_cost) == searchFrom_rows(t, word, max_cost, FirstRow(word), <<>>, 1)

(***************************************************************************)
(* Reference Levenshtein distance (textbook recursion on the two strings). *)
(***************************************************************************)
RECURSIVE Lev(_, _)
Lev(a, b) ==
    IF Len(a) = 0 THEN Len(b)
    ELSE IF Len(b) = 0 THEN Len(a)
    ELSE Min3(Lev(Tail(a), b) + 1,
              Lev(a, Tail(b)) + 1,
              Lev(Tail(a), Tail(b)) + (IF Head(a) = Head(b) THEN 0 ELSE 1))

(***************************************************************************)
(* Trie specification: insert and search on one trie.                      *)
(***************************************************************************)
(* found is the pending result of the latest call: of a search (done), or  *)
(* of an insert of a word that was already stored (again, with the word in *)
(* query); again is history kept for the claims, and so is rows, the rows  *)
(* the search computed.                                                    *)
NoSearch ==
    [query |-> <<>>, max_cost |-> 0, results |-> <<>>, done |-> FALSE, again |-> FALSE,
     rows |-> <<>>]

IdleTrie == trie = EmptyTrie /\ inserted = {} /\ found = NoSearch

IdleCache ==
    /\ store = <<>> /\ max_size = 1 /\ arrival = <<>>
    /\ lastOp = [op |-> "none", key |-> <<>>, arg |-> PyNone, result |-> PyNone, popped |-> {}]

NoQuery == [op |-> "none", phrase |-> <<>>, result |-> PyNone]

IdleGaz == gz = [kind |-> "none"] /\ source = <<>> /\ qr = NoQuery /\ generator = "none"

InitTrie == IdleTrie /\ IdleCache /\ IdleGaz

Insert(word) ==
    /\ found = NoSearch
    /\ word \in inserted \/ Cardinality(inserted) < MaxInserts
    /\ trie' = insert(trie, word)
    /\ inserted' = inserted \cup {word}
    /\ found' = IF word \in inserted
                THEN [NoSearch EXCEPT !.query = word, !.again = TRUE]
                ELSE NoSearch
    /\ UNCHANGED <<cacheVars, gazVars>>

Search(query, max_cost) ==
    /\ found = NoSearch
    /\ found' = [query |-> query, max_cost |-> max_cost,
                 results |-> search(trie, query, max_cost), done |-> TRUE, again |-> FALSE,
                 rows |-> search_rows(trie, query, max_cost)]
    /\ UNCHANGED <<trie, inserted, cacheVars, gazVars>>

Return ==
    /\ found.done \/ found.again
    /\ found' = NoSearch
    /\ UNCHANGED <<trie, inserted, cacheVars, gazVars>>

(* a call starts when none is pending *)
NextTrie ==
    \/ Return
    \/ /\ found = NoSearch
       /\ \E word \in StringsUpTo(MaxWordLen) : Insert(word)
    \/ /\ found = NoSearch
       /\ \E query \in StringsUpTo(MaxQueryLen), max_cost \in 0..MaxCost :
             Search(query, max_cost)

SpecTrie == InitTrie /\ [][NextTrie]_vars

(***************************************************************************)
(* Cache.  _store is an OrderedDict: a list of <<key, value>> pairs whose  *)
(* keys are distinct, in the dict's order (a new key goes last, a key that *)
(* is assigned again keeps its place).                                     *)
(***************************************************************************)
MaxCapacity == 2

CacheKeys == {<<"a">>, <<"b">>, <<"a", "b">>, <<"b", "a">>}

CacheValues == {PyInt(0), PyInt(1), PyFloat(0, 1), PyStr(<<>>), PyStr(<<"a">>), PyBool(FALSE)}

CacheDefaults == {PyNone, PyStr(<<"d">>)}

Keys(s) == {s[i][1] : i \in 1..Len(s)}

IndexOf(s, key) == CHOOSE i \in 1..Len(s) : s[i][1] = key

(* OrderedDict.__setitem__ *)
setitem(s, key, value) ==
    IF key \in Keys(s)
    THEN [s EXCEPT ![IndexOf(s, key)] = <<key, value>>]
    ELSE Append(s, <<key, value>>)

(* a lookup that answers with the first value stored, whatever the key *)
dict_get_first(s, key) == IF s # <<>> THEN s[1][2] ELSE PyNone

(* OrderedDict.get(key): the value, or None for a missing key *)
dict_get(s, key) == IF key \in Keys(s) THEN s[IndexOf(s, key)][2] ELSE PyNone

(* OrderedDict.popitem(last = False) *)
popitem_first(s) == Tail(s)

(* OrderedDict.popitem(last = True) *)
popitem_last(s) == SubSeq(s, 1, Len(s) - 1)

check_limit_pop_last(s, limit) == IF Len(s) >= limit THEN popitem_last(s) ELSE s

check_limit_strict(s, limit) == IF Len(s) > limit THEN popitem_first(s) ELSE s

check_limit(s, limit) == IF Len(s) >= limit THEN popitem_first(s) ELSE s

Cache_set(s, limit, key, value) == setitem(check_limit(s, limit), key, value)

Cache_get(s, key, default) ==
    LET data == dict_get(s, key)
    IN IF ~Truthy(data) THEN default ELSE data

(* a get that moves the key read to the end of the store (LRU) *)
Cache_get_store_moved_to_end(s, key) ==
    IF key \in Keys(s)
    THEN Append(SelectSeq(s, LAMBDA e : e[1] # key), s[IndexOf(s, key)])
    ELSE s

(* self._store after get: get reads with self._store.get and writes nothing *)
Cache_get_store(s, key) == s

Cache_clear == <<>>

(***************************************************************************)
(* Cache specification.  arrival lists the keys now in the cache in the    *)
(* order in which they entered it (history kept for the claims; the code   *)
(* has no such field).  lastOp is the latest call and what it returned.    *)
(***************************************************************************)
InitCache ==
    /\ IdleTrie /\ IdleGaz
    /\ store = <<>>
    /\ max_size \in 1..MaxCapacity
    /\ arrival = <<>>
    /\ lastOp = [op |-> "init", key |-> <<>>, arg |-> PyNone, result |-> PyNone, popped |-> {}]

Set(key, value) ==
    /\ store' = Cache_set(store, max_size, key, value)
    /\ LET popped == Keys(store) \ Keys(check_limit(store, max_size))
           stay == SelectSeq(arrival, LAMBDA k : k \notin popped)
       IN /\ arrival' = IF key \in ToSet(stay) THEN stay ELSE Append(stay, key)
          /\ lastOp' = [op |-> "set", key |-> key, arg |-> value, result |-> PyNone,
                        popped |-> popped]
    /\ UNCHANGED <<max_size, trieVars, gazVars>>

Get(key, default) ==
    /\ lastOp' = [op |-> "get", key |-> key, arg |-> default,
                  result |-> Cache_get(store, key, default), popped |-> {}]
    /\ store' = Cache_get_store(store, key)
    /\ UNCHANGED <<max_size, arrival, trieVars, gazVars>>

Clear ==
    /\ store' = Cache_clear
    /\ arrival' = <<>>
    /\ lastOp' = [op |-> "clear", key |-> <<>>, arg |-> PyNone, result |-> PyNone, popped |-> {}]
    /\ UNCHANGED <<max_size, trieVars, gazVars>>

NextCache ==
    \/ \E key \in CacheKeys, value \in CacheValues : Set(key, value)
    \/ \E key \in CacheKeys, default \in CacheDefaults : Get(key, default)
    \/ Clear

SpecCache == InitCache /\ [][NextCache]_vars

(***************************************************************************)
(* Python string operations used at load and at query time.                *)
(***************************************************************************)
Whitespace == {" ", "\n"}

lower_char(c) == CASE c = "A" -> "a" [] c = "B" -> "b" [] OTHER -> c

(* str.lower *)
lower(s) == [i \in 1..Len(s) |-> lower_char(s[i])]

RECURSIVE lstrip(_)
lstrip(s) == IF Len(s) > 0 /\ Head(s) \in Whitespace THEN lstrip(Tail(s)) ELSE s

RECURSIVE rstrip(_)
rstrip(s) ==
    IF Len(s) > 0 /\ s[Len(s)] \in Whitespace THEN rstrip(SubSeq(s, 1, Len(s) - 1)) ELSE s

(* str.strip *)
strip(s) == lstrip(rstrip(s))

(* str.split(sep): one more field than there are separators, never none *)
RECURSIVE splitFrom(_, _, _, _, _)
splitFrom(s, sep, i, field, fields) ==
    IF i > Len(s) THEN Append(fields, field)
    ELSE IF s[i] = sep THEN splitFrom(s, sep, i + 1, <<>>, Append(fields, field))
    ELSE splitFrom(s, sep, i + 1, Append(field, s[i]), fields)

split(s, sep) == splitFrom(s, sep, 1, <<>>, <<>>)

(* str.split(): the maximal runs of non-whitespace characters *)
RECURSIVE splitWsFrom(_, _, _, _)
splitWsFrom(s, i, token, tokens) ==
    IF i > Len(s) THEN (IF token = <<>> THEN tokens ELSE Append(tokens, token))
    ELSE IF s[i] \in Whitespace
         THEN splitWsFrom(s, i + 1, <<>>, IF token = <<>> THEN tokens ELSE Append(tokens, token))
    ELSE splitWsFrom(s, i + 1, Append(token, s[i]), tokens)

split_ws(s) == splitWsFrom(s, 1, <<>>, <<>>)

(* "sep".join(list) *)
RECURSIVE joinFrom(_, _, _, _)
joinFrom(sep, list, i, acc) ==
    IF i > Len(list) THEN acc
    ELSE joinFrom(sep, list, i + 1, IF i = 1 THEN list[i] ELSE acc \o sep \o list[i])

join(sep, list) == joinFrom(sep, list, 1, <<>>)

(* ord(c) of the characters that occur in category names *)
CodePoint(c) ==
    CASE c = "_" -> 95 [] c = "a" -> 97 [] c = "c" -> 99 [] c = "e" -> 101
      [] c = "h" -> 104 [] c = "k" -> 107 [] c = "p" -> 112 [] c = "r" -> 114
      [] c = "s" -> 115 [] c = "t" -> 116

(* a <= b for two Python strings *)
RECURSIVE str_le(_, _)
str_le(a, b) ==
    IF Len(a) = 0 THEN TRUE
    ELSE IF Len(b) = 0 THEN FALSE
    ELSE IF Head(a) = Head(b) THEN str_le(Tail(a), Tail(b))
    ELSE CodePoint(Head(a)) < CodePoint(Head(b))

(* list.sort() *)
RECURSIVE insert_sorted(_, _)
insert_sorted(sorted, x) ==
    IF Len(sorted) = 0 THEN <<x>>
    ELSE IF str_le(sorted[Len(sorted)], x) THEN Append(sorted, x)
    ELSE Append(insert_sorted(SubSeq(sorted, 1, Len(sorted) - 1), x), sorted[Len(sorted)])

RECURSIVE sortFrom(_, _, _)
sortFrom(list, i, sorted) ==
    IF i > Len(list) THEN sorted ELSE sortFrom(list, i + 1, insert_sorted(sorted, list[i]))

sort(list) == sortFrom(list, 1, <<>>)

(* d[key] = value on a dict *)
put(d, key, value) ==
    IF key \in DOMAIN d THEN [d EXCEPT ![key] = value] ELSE d @@ (key :> value)

EmptyDict == [k \in {} |-> <<>>]

(* "for line in f" on a file given by its content: the lines in turn, each *)
(* with the line end that closes it; the last line has none when the       *)
(* content does not end with a line end, and a content that ends with one  *)
(* has no further line after it                                            *)
RECURSIVE readlinesFrom(_, _, _, _)
readlinesFrom(content, i, line, lines) ==
    IF i > Len(content)
    THEN IF line = <<>> THEN lines ELSE Append(lines, line)
    ELSE IF content[i] = "\n"
         THEN readlinesFrom(content, i + 1, <<>>, Append(lines, Append(line, "\n")))
         ELSE readlinesFrom(content, i + 1, Append(line, content[i]), lines)

readlines(content) == readlinesFrom(content, 1, <<>>, <<>>)

(* lower_line.split(",") followed by [a.strip() for a in entries] *)
parse_entries(line) ==
    LET fields == split(lower(line), ",")
    IN [i \in 1..Len(fields) |-> strip(fields[i])]

(***************************************************************************)
(* Gazetteer.__init__ and Gazetteer.fill_gazetteer                         *)
(***************************************************************************)
NewGazetteer(type) ==
    [kind |-> "Gazetteer",
     type |-> type,
     synonyms_to_official_name |-> EmptyDict,
     official_names_set |-> {},
     synonyms_set |-> {},
     official_names_trie |-> EmptyTrie,
     synonyms_trie |-> EmptyTrie,
     position_in_name |-> EmptyDict,
     tokens_trie |-> EmptyTrie]

RECURSIVE insert_all(_, _, _)
insert_all(t, words, i) ==
    IF i > Len(words) THEN t ELSE insert_all(insert(t, words[i]), words, i + 1)

(* the first position recorded for a token is kept *)
RECURSIVE fill_tokens_first_wins(_, _, _)
fill_tokens_first_wins(g, tokens, it) ==
    IF it > Len(tokens) THEN g
    ELSE fill_tokens_first_wins(
             [g EXCEPT !.tokens_trie = insert(@, tokens[it]),
                       !.position_in_name = IF tokens[it] \in DOMAIN @ THEN @
                                            ELSE put(@, tokens[it], it - 1)],
             tokens, it + 1)

RECURSIVE fill_tokens(_, _, _)
fill_tokens(g, tokens, it) ==
    IF it > Len(tokens) THEN g
    ELSE fill_tokens([g EXCEPT !.tokens_trie = insert(@, tokens[it]),
                               !.position_in_name = put(@, tokens[it], it - 1)],
                     tokens, it + 1)

(* only the official name itself is entered in synonyms_to_official_name *)
RECURSIVE fill_entries_official_only(_, _, _)
fill_entries_official_only(g, entries, i) ==
    IF i > Len(entries) THEN g
    ELSE LET official_name == entries[1]
             entry == entries[i]
             g1 == IF i = 1
                   THEN [g EXCEPT !.synonyms_to_official_name = put(@, entry, official_name)]
                   ELSE g
         IN fill_entries_official_only(fill_tokens(g1, split_ws(entry), 1), entries, i + 1)

RECURSIVE fill_entries(_, _, _)
fill_entries(g, entries, i) ==
    IF i > Len(entries) THEN g
    ELSE LET official_name == entries[1]
             entry == entries[i]
             g1 == [g EXCEPT !.synonyms_to_official_name = put(@, entry, official_name)]
         IN fill_entries(fill_tokens(g1, split_ws(entry), 1), entries, i + 1)

fill_line(g, line) ==
    LET entries == parse_entries(line)
    IN IF Len(entries) > 0
       THEN fill_entries([g EXCEPT !.official_names_set = @ \cup {entries[1]},
                                   !.official_names_trie = insert(@, entries[1]),
                                   !.synonyms_set = @ \cup ToSet(entries),
                                   !.synonyms_trie = insert_all(@, entries, 1)],
                         entries, 1)
       ELSE g

RECURSIVE fill_gazetteer(_, _, _)
fill_gazetteer(g, lines, n) ==
    IF n > Len(lines) THEN g
    ELSE fill_gazetteer(fill_line(g, lines[n]), lines, n + 1)

Gazetteer(file, type) == fill_gazetteer(NewGazetteer(type), readlines(file), 1)

(***************************************************************************)
(* AllGazetteer.__init__ and AllGazetteer.fill_gazetteer.  The argument is *)
(* the list of the (type, file) items of type_filepath_dict in the dict's  *)
(* iteration order.                                                        *)
(***************************************************************************)
NewAllGazetteer ==
    [kind |-> "AllGazetteer",
     token_types |-> EmptyDict,
     entry_types |-> EmptyDict,
     entries_trie |-> EmptyTrie,
     tokens_trie |-> EmptyTrie]

RECURSIVE all_fill_tokens(_, _, _, _)
all_fill_tokens(g, e_type, tokens, idx) ==
    IF idx > Len(tokens) THEN g
    ELSE LET token == tokens[idx]
             g1 == IF token \notin DOMAIN g.token_types
                   THEN [g EXCEPT !.token_types = put(@, token, <<>>),
                                  !.tokens_trie = insert(@, token)]
                   ELSE g
         IN all_fill_tokens([g1 EXCEPT !.token_types[token] = Append(@, e_type)],
                            e_type, tokens, idx + 1)

RECURSIVE all_fill_entries(_, _, _, _)
all_fill_entries(g, e_type, entries, idx) ==
    IF idx > Len(entries) THEN g
    ELSE LET entry == entries[idx]
             g1 == IF entry \notin DOMAIN g.entry_types
                   THEN [g EXCEPT !.entry_types = put(@, entry, <<>>),
                                  !.entries_trie = insert(@, entry)]
                   ELSE g
             g2 == [g1 EXCEPT !.entry_types[entry] = Append(@, e_type)]
         IN all_fill_entries(all_fill_tokens(g2, e_type, split_ws(entry), 1),
                             e_type, entries, idx + 1)

all_fill_line(g, e_type, line) ==
    LET entries == parse_entries(line)
    IN IF Len(entries) > 0 THEN all_fill_entries(g, e_type, entries, 1) ELSE g

RECURSIVE all_fill_file(_, _, _, _)
all_fill_file(g, e_type, lines, n) ==
    IF n > Len(lines) THEN g
    ELSE all_fill_file(all_fill_line(g, e_type, lines[n]), e_type, lines, n + 1)

RECURSIVE all_fill_items(_, _, _)
all_fill_items(g, items, k) ==
    IF k > Len(items) THEN g
    ELSE all_fill_items(all_fill_file(g, items[k][1], readlines(items[k][2]), 1), items, k + 1)

sort_types(g) ==
    [g EXCEPT !.token_types = [token \in DOMAIN g.token_types |-> sort(g.token_types[token])],
              !.entry_types = [entry \in DOMAIN g.entry_types |-> sort(g.entry_types[entry])]]

all_fill_gazetteer(g, items) == sort_types(all_fill_items(g, items, 1))

AllGazetteer(items) == all_fill_gazetteer(NewAllGazetteer, items)

(***************************************************************************)
(* Queries of Gazetteer and AllGazetteer.                                  *)
(***************************************************************************)
DistancePercent == 30

Max2(x, y) == IF x >= y THEN x ELSE y

(* int(len(phrase) * 0.30) without the floor of 1 *)
max_distance_no_floor(phrase) == (Len(phrase) * DistancePercent) \div 100

(* max(1, int(len(phrase) * distance_percentage)); the float product       *)
(* truncates to floor(30 * len / 100) for every length below 200000        *)
max_distance(phrase) == Max2(1, (Len(phrase) * DistancePercent) \div 100)

(* min(results, key = operator.itemgetter(1)): the first of the results    *)
(* with the least distance                                                 *)
min_by_distance(results) ==
    results[CHOOSE i \in 1..Len(results) :
                /\ \A j \in 1..Len(results) : results[i][2] <= results[j][2]
                /\ \A j \in 1..(i - 1) : results[j][2] > results[i][2]]

RECURSIVE GCD(_, _)
GCD(x, y) == IF y = 0 THEN x ELSE GCD(y, x % y)

PyRaise(exception) == [type |-> exception, val |-> <<>>]

(* a division that answers 1.0 for a zero divisor *)
true_div_guarded(n, d) ==
    IF d = 0 THEN PyFloat(1, 1)
    ELSE PyFloat(n \div GCD(n, d), d \div GCD(n, d))

(* n / float(d) *)
true_div(n, d) ==
    IF d = 0 THEN PyRaise("ZeroDivisionError")
    ELSE PyFloat(n \div GCD(n, d), d \div GCD(n, d))

NONE == <<"N", "O", "N", "E">>

(* the body shared, copy by copy, by the five minimum_distance_to_*        *)
minimum_distance(t, phrase) ==
    LET results == search(t, lower(phrase), max_distance(phrase))
    IN IF Len(results) > 0
       THEN true_div(min_by_distance(results)[2], Len(phrase))
       ELSE PyFloat(1, 1)

(* the phrase looked up as given, without lower() *)
contains_as_official_name_exact(g, phrase) == PyBool(phrase \in g.official_names_set)

contains_as_official_name(g, phrase) == PyBool(lower(phrase) \in g.official_names_set)

contains_as_synonym(g, phrase) == PyBool(lower(phrase) \in g.synonyms_set)

minimum_distance_to_token(g, phrase) == minimum_distance(g.tokens_trie, phrase)

minimum_distance_to_official_name(g, phrase) == minimum_distance(g.official_names_trie, phrase)

minimum_distance_to_synonym(g, phrase) == minimum_distance(g.synonyms_trie, phrase)

closest_official_name(g, phrase) ==
    LET results == search(g.synonyms_trie, lower(phrase), max_distance(phrase))
    IN IF Len(results) > 0
       THEN LET entry == min_by_distance(results)[1]
            IN IF entry \in DOMAIN g.synonyms_to_official_name
               THEN PyStr(g.synonyms_to_official_name[entry])
               ELSE PyRaise("KeyError")
       ELSE PyStr(NONE)

(* the else branch evaluates the string "None" and returns nothing *)
closest_token(g, phrase) ==
    LET results == search(g.tokens_trie, lower(phrase), max_distance(phrase))
    IN IF Len(results) > 0
       THEN PyStr(min_by_distance(results)[1])
       ELSE PyNone

token_position_in_name(g, token) ==
    IF token \in DOMAIN g.position_in_name
    THEN PyInt(g.position_in_name[token])
    ELSE PyInt(-1)

(* the token query run on the trie of whole entries *)
all_minimum_distance_to_token_on_entries(g, phrase) == minimum_distance(g.entries_trie, phrase)

all_minimum_distance_to_token(g, phrase) == minimum_distance(g.tokens_trie, phrase)

all_minimum_distance_to_entry(g, phrase) == minimum_distance(g.entries_trie, phrase)

closest_entry_types(g, phrase) ==
    LET results == search(g.entries_trie, lower(phrase), max_distance(phrase))
    IN IF Len(results) > 0 /\ min_by_distance(results)[1] \in DOMAIN g.entry_types
       THEN PyStr(join(<<"_">>, g.entry_types[min_by_distance(results)[1]]))
       ELSE PyStr(NONE)

closest_token_types(g, phrase) ==
    LET results == search(g.tokens_trie, lower(phrase), max_distance(phrase))
    IN IF Len(results) > 0 /\ min_by_distance(results)[1] \in DOMAIN g.token_types
       THEN PyStr(join(<<"_">>, g.token_types[min_by_distance(results)[1]]))
       ELSE PyStr(NONE)

(***************************************************************************)
(* The earlier module, features/gazetteer.py: a trie searched by           *)
(* recursion, and a Gazetteer whose fields are neither stripped nor        *)
(* lower-cased.  Two things in it depend on the interpreter that runs it.  *)
(* Its search_recursive builds a row with xrange, a name that Python 2     *)
(* defines and Python 3 does not.  Its loops "for letter in node.children" *)
(* walk a dict: Python 3 yields the keys in the order they were inserted,  *)
(* Python 2 in the order of the slots of its hash table.  An interpreter   *)
(* is given by these two facts; the third one is Python 3 with the name    *)
(* xrange bound to range.                                                  *)
(*                                                                         *)
(* A node keeps in children the keys in the order they were inserted, on   *)
(* every interpreter; dict_iter gives the order in which the interpreter   *)
(* iterates them.                                                          *)
(***************************************************************************)
Python2 == [xrange |-> TRUE, dict_order |-> "hash"]

Python3 == [xrange |-> FALSE, dict_order |-> "insertion"]

Python3WithXrange == [xrange |-> TRUE, dict_order |-> "insertion"]

Interpreters == {Python2, Python3, Python3WithXrange}

(* The slots a Python 2 dict tries in turn for a one-character key, in a   *)
(* table of mask + 1 slots: hash & mask first, then the slots of the       *)
(* perturbed probe i = 5 * i + perturb + 1, perturb being the hash shifted *)
(* right by 5 at every step.  The hash of a one-character string c is      *)
(* ((1000003 * (ord(c) << 7)) ^ ord(c)) ^ 1.  Listed up to the probe that  *)
(* brings the eighth distinct slot.                                        *)
py2_probe(key, mask) ==
    IF mask = 7
    THEN CASE
                key = "a" -> <<0, 1, 5, 6, 2, 3, 2, 6, 7, 4>>
             [] key = "b" -> <<3, 3, 3, 4, 2, 5, 7, 7, 4, 5, 2, 3, 0, 1, 6>>
             [] key = "A" -> <<0, 1, 4, 5, 5, 0, 0, 0, 1, 6, 7, 4, 5, 2, 3>>
             [] key = "B" -> <<3, 3, 2, 3, 5, 2, 6, 6, 7, 4, 5, 2, 3, 0, 1>>
             [] key = " " -> <<1, 7, 5, 6, 7, 6, 1, 1, 6, 7, 4, 5, 2, 3, 0>>
             [] key = "," -> <<5, 7, 5, 2, 6, 2, 2, 0, 1, 6, 7, 4, 5, 2, 3>>
             [] key = "\n" -> <<3, 3, 0, 4, 3, 4, 3, 1, 6, 7, 4, 5, 2>>
    ELSE CASE
                key = "a" -> <<0, 1, 21, 22, 10, 19, 18, 6>>
             [] key = "b" -> <<3, 19, 27, 28, 10, 13, 23, 31>>
             [] key = "A" -> <<0, 1, 20, 5, 13, 0, 24, 0, 1, 6, 31>>
             [] key = "B" -> <<3, 19, 26, 11, 13, 26, 30, 30, 23, 20>>
             [] key = " " -> <<1, 7, 5, 6, 7, 6, 25, 1, 6, 31, 28, 13>>
             [] key = "," -> <<13, 15, 29, 2, 14, 2, 18, 0, 1>>
             [] key = "\n" -> <<11, 3, 8, 28, 3, 20, 11, 25, 30, 23>>

(* the first slot of the probe sequence that is free *)
RECURSIVE py2_slot(_, _, _)
py2_slot(table, probe, k) ==
    IF table[probe[k]] = "" THEN probe[k] ELSE py2_slot(table, probe, k + 1)

py2_place(table, mask, key) ==
    [table EXCEPT ![py2_slot(table, py2_probe(key, mask), 1)] = key]

RECURSIVE py2_place_all(_, _, _, _)
py2_place_all(table, mask, keys, i) ==
    IF i > Len(keys) THEN table
    ELSE py2_place_all(py2_place(table, mask, keys[i]), mask, keys, i + 1)

py2_used(key) == key # ""

(* the keys of the table in the order of their slots *)
py2_keys(table, mask) == SelectSeq([i \in 1..(mask + 1) |-> table[i - 1]], py2_used)

(* the size of the table after a resize: the first power of two above      *)
(* minused, from 8 on                                                      *)
RECURSIVE py2_newsize(_, _)
py2_newsize(size, minused) ==
    IF size <= minused THEN py2_newsize(2 * size, minused) ELSE size

(* d[key] = value for a key that is not in the Python 2 dict d: the key is *)
(* placed, and a table filled to two thirds is replaced by one of at least *)
(* four times the keys, filled from the old one slot by slot               *)
py2_insert(d, key) ==
    LET table == py2_place(d.table, d.mask, key)
        fill == d.fill + 1
    IN IF fill * 3 >= (d.mask + 1) * 2
       THEN LET mask == py2_newsize(8, 4 * fill) - 1
            IN [mask |-> mask, fill |-> fill,
                table |-> py2_place_all([slot \in 0..mask |-> ""], mask,
                                        py2_keys(table, d.mask), 1)]
       ELSE [mask |-> d.mask, fill |-> fill, table |-> table]

RECURSIVE py2_dict(_, _, _)
py2_dict(keys, i, d) ==
    IF i > Len(keys) THEN d ELSE py2_dict(keys, i + 1, py2_insert(d, keys[i]))

(* "for letter in node.children": the keys of the dict in the order the    *)
(* interpreter yields them, children being the keys in insertion order; a  *)
(* dict of at most one key has one order                                   *)
dict_iter(children, interpreter) ==
    IF interpreter.dict_order = "hash" /\ Len(children) > 1
    THEN LET d == py2_dict(children, 1, [mask |-> 7, fill |-> 0, table |-> [slot \in 0..7 |-> ""]])
         IN py2_keys(d.table, d.mask)
    ELSE children

OldMaxCost == 5

NoMatch == 999

(* the row is built from the first row instead of the row of the parent *)
old_row_from_first_row(letter, word, previous_row) ==
    NextRow(letter, word, FirstRow(word))

old_row(letter, word, previous_row) == NextRow(letter, word, previous_row)

(* search_recursive on the child node at path node, and the loop over a    *)
(* node's children from the k-th on; results is the list appended to       *)
RECURSIVE search_recursive(_, _, _, _, _, _, _)
RECURSIVE search_children(_, _, _, _, _, _, _, _)
search_recursive(t, node, word, previous_row, results, max_cost, interpreter) ==
    LET letter == node[Len(node)]
        current_row == old_row(letter, word, previous_row)
        reported == IF current_row[Len(current_row)] <= max_cost /\ t[node].word # None
                    THEN Append(results, <<t[node].word[1], current_row[Len(current_row)]>>)
                    ELSE results
    IN IF MinOfSeq(current_row) <= max_cost
       THEN search_children(t, node, word, current_row, reported, max_cost, interpreter, 1)
       ELSE reported

search_children(t, node, word, row, results, max_cost, interpreter, k) ==
    IF k > Len(t[node].children) THEN results
    ELSE search_children(t, node, word, row,
                         search_recursive(t,
                                          Append(node, dict_iter(t[node].children,
                                                                 interpreter)[k]),
                                          word, row, results, max_cost, interpreter),
                         max_cost, interpreter, k + 1)

(* the earlier search: the list of results, or the NameError of the first  *)
(* call of search_recursive where xrange is not defined                    *)
old_search(t, word, max_cost, interpreter) ==
    IF Len(t[<<>>].children) > 0 /\ ~interpreter.xrange
    THEN [raised |-> TRUE, results |-> <<>>]
    ELSE [raised |-> FALSE,
          results |-> search_children(t, <<>>, word, FirstRow(word), <<>>, max_cost,
                                      interpreter, 1)]

NewOldGazetteer(type, interpreter) ==
    [kind |-> "OldGazetteer",
     type |-> type,
     interpreter |-> interpreter,
     official_names_set |-> {},
     synonyms_set |-> {},
     official_names_trie |-> EmptyTrie,
     synonyms_trie |-> EmptyTrie]

old_fill_line(g, line) ==
    LET entries == split(line, ",")
    IN IF Len(entries) > 0
       THEN [g EXCEPT !.official_names_set = @ \cup {entries[1]},
                      !.official_names_trie = insert(@, entries[1]),
                      !.synonyms_set = @ \cup ToSet(entries),
                      !.synonyms_trie = insert_all(@, entries, 1)]
       ELSE g

RECURSIVE old_fill_gazetteer(_, _, _)
old_fill_gazetteer(g, lines, n) ==
    IF n > Len(lines) THEN g
    ELSE old_fill_gazetteer(old_fill_line(g, lines[n]), lines, n + 1)

OldGazetteer(file, type, interpreter) ==
    old_fill_gazetteer(NewOldGazetteer(type, interpreter), readlines(file), 1)

(* results[0][1] of the search with max cost 5, or 999 *)
old_minimum_distance(t, phrase, interpreter) ==
    LET found_ == old_search(t, phrase, OldMaxCost, interpreter)
    IN IF found_.raised THEN PyRaise("NameError")
       ELSE IF Len(found_.results) > 0
            THEN PyInt(found_.results[1][2])
            ELSE PyInt(NoMatch)

old_minimum_distance_to_official_name(g, phrase) ==
    old_minimum_distance(g.official_names_trie, phrase, g.interpreter)

old_minimum_distance_to_synonym(g, phrase) ==
    old_minimum_distance(g.synonyms_trie, phrase, g.interpreter)

(* The earlier search on a trie built by insert, run by one of the         *)
(* interpreters; raised tells whether the call ended with the NameError,    *)
(* interpreter which one ran it.                                           *)
SearchRecursive(query, max_cost, interpreter) ==
    /\ found = NoSearch
    /\ LET answer == old_search(trie, query, max_cost, interpreter)
       IN found' = [query |-> query, max_cost |-> max_cost, results |-> answer.results,
                    done |-> TRUE, again |-> FALSE, raised |-> answer.raised,
                    interpreter |-> interpreter]
    /\ UNCHANGED <<trie, inserted, cacheVars, gazVars>>

(* a call starts when none is pending *)
NextOldTrie ==
    \/ Return
    \/ /\ found = NoSearch
       /\ \E word \in StringsUpTo(MaxWordLen) : Insert(word)
    \/ /\ found = NoSearch
       /\ \E query \in StringsUpTo(MaxQueryLen), max_cost \in 0..MaxCost,
             interpreter \in Interpreters :
             SearchRecursive(query, max_cost, interpreter)

SpecOldTrie == InitTrie /\ [][NextOldTrie]_vars

(***************************************************************************)
(* Gazetteer specification: one Gazetteer or one AllGazetteer is built     *)
(* from source files, then queried.                                        *)
(***************************************************************************)
MaxLines == 2
MaxAllLines == 1

(* source lines, as they stand in the file before the line end *)
SourceLines ==
    { <<>>,
      <<"a">>,
      <<"a", "b">>,
      <<"A", "b", ",", " ", "b">>,
      <<"a", " ", "b">>,
      <<"b", " ", "a", ",", "a">>,
      <<"a", ",", "a">>,
      <<"A", "b", "a", "b", "a", "b", "a">> }

AllSourceLines ==
    { <<>>,
      <<"a", ",", "a">>,
      <<"A", "b", ",", " ", "b">>,
      <<"a", " ", "a">> }

(* source lines read by the earlier Gazetteer *)
OldSourceLines ==
    { <<>>,
      <<"a">>,
      <<"a", "b">>,
      <<"a", " ", "b">>,
      <<"a", ",", "a", "b">> }

QueryPhrases ==
    { <<>>, <<"a">>, <<"A">>, <<"b">>, <<"a", "b">>, <<"A", "b">>, <<"b", "b">>,
      <<"a", " ", "b">>,
      <<"b", "b", "b">>, <<"a", "b", "a", "b", "a", "b", "a">>,
      <<"B", "b", "a", "b", "a", "b", "b">>, <<"b", "b", "b", "b", "a", "b", "a">> }

Characters == <<"c", "h", "a", "r", "a", "c", "t", "e", "r", "s">>

Parks == <<"p", "a", "r", "k", "s">>

Types == {Characters, Parks}

(* the content of the file with these lines, the last one closed by a line *)
(* end or not                                                              *)
FileOf(lines, ended) ==
    join(<<"\n">>, lines) \o (IF ended /\ Len(lines) > 0 THEN <<"\n">> ELSE <<>>)

(* the contents of the files of up to n lines *)
Files(lines, n) ==
    {FileOf(file, ended) : file \in UNION {[1..k -> lines] : k \in 0..n}, ended \in BOOLEAN}

AllGazetteerFiles == Files(AllSourceLines, MaxAllLines)

ItemLists ==
    {<<>>}
    \cup {<<<<t, f>>>> : t \in Types, f \in AllGazetteerFiles}
    \cup {<<<<Characters, f1>>, <<Parks, f2>>>> :
              f1 \in AllGazetteerFiles, f2 \in AllGazetteerFiles}
    \cup {<<<<Parks, f1>>, <<Characters, f2>>>> :
              f1 \in AllGazetteerFiles, f2 \in AllGazetteerFiles}

GazetteerFiles == Files(SourceLines, MaxLines)

OldGazetteerFiles == Files(OldSourceLines, MaxLines)

GazetteerOps ==
    {"contains_as_official_name", "contains_as_synonym", "minimum_distance_to_token",
     "minimum_distance_to_official_name", "minimum_distance_to_synonym",
     "closest_official_name", "closest_token", "token_position_in_name"}

AllGazetteerOps ==
    {"all_minimum_distance_to_token", "all_minimum_distance_to_entry",
     "closest_entry_types", "closest_token_types"}

(* a query that stores the phrase it was asked about among the tokens *)
after_query_keeps_phrase(g, op, phrase) ==
    IF g.kind = "Gazetteer"
    THEN [g EXCEPT !.tokens_trie = insert(@, lower(phrase)),
                   !.position_in_name = put(@, lower(phrase), 0)]
    ELSE g

(* the gazetteer after a query method has run: the methods and search only *)
(* read the tries, sets and maps                                           *)
after_query(g, op, phrase) == g

OldGazetteerOps ==
    {"old_minimum_distance_to_official_name", "old_minimum_distance_to_synonym"}

Call(g, op, phrase) ==
    CASE op = "contains_as_official_name" -> contains_as_official_name(g, phrase)
      [] op = "contains_as_synonym" -> contains_as_synonym(g, phrase)
      [] op = "minimum_distance_to_token" -> minimum_distance_to_token(g, phrase)
      [] op = "minimum_distance_to_official_name" -> minimum_distance_to_official_name(g, phrase)
      [] op = "minimum_distance_to_synonym" -> minimum_distance_to_synonym(g, phrase)
      [] op = "closest_official_name" -> closest_official_name(g, phrase)
      [] op = "closest_token" -> closest_token(g, phrase)
      [] op = "token_position_in_name" -> token_position_in_name(g, phrase)
      [] op = "all_minimum_distance_to_token" -> all_minimum_distance_to_token(g, phrase)
      [] op = "all_minimum_distance_to_entry" -> all_minimum_distance_to_entry(g, phrase)
      [] op = "closest_entry_types" -> closest_entry_types(g, phrase)
      [] op = "closest_token_types" -> closest_token_types(g, phrase)
      [] op = "old_minimum_distance_to_official_name" ->
             old_minimum_distance_to_official_name(g, phrase)
      [] op = "old_minimum_distance_to_synonym" -> old_minimum_distance_to_synonym(g, phrase)

InitGaz == IdleTrie /\ IdleCache /\ IdleGaz

ConstructGazetteer(file, type) ==
    /\ gz.kind = "none"
    /\ gz' = Gazetteer(file, type)
    /\ source' = <<<<type, file>>>>
    /\ UNCHANGED <<qr, generator, trieVars, cacheVars>>

ConstructOldGazetteer(file, type, interpreter) ==
    /\ gz.kind = "none"
    /\ gz' = OldGazetteer(file, type, interpreter)
    /\ source' = <<<<type, file>>>>
    /\ UNCHANGED <<qr, generator, trieVars, cacheVars>>

ConstructAllGazetteer(items) ==
    /\ gz.kind = "none"
    /\ gz' = AllGazetteer(items)
    /\ source' = items
    /\ UNCHANGED <<qr, generator, trieVars, cacheVars>>

Query(op, phrase) ==
    /\ qr.op = "none"
    /\ \/ gz.kind = "Gazetteer" /\ op \in GazetteerOps
       \/ gz.kind = "AllGazetteer" /\ op \in AllGazetteerOps
       \/ gz.kind = "OldGazetteer" /\ op \in OldGazetteerOps
    /\ qr' = [op |-> op, phrase |-> phrase, result |-> Call(gz, op, phrase)]
    /\ gz' = after_query(gz, op, phrase)
    /\ UNCHANGED <<source, generator, trieVars, cacheVars>>

QueryReturn ==
    /\ qr.op # "none"
    /\ qr' = NoQuery
    /\ UNCHANGED <<gz, source, generator, trieVars, cacheVars>>

(* a gazetteer is built once, from the state where none is built yet *)
NextGaz ==
    \/ /\ gz.kind = "none"
       /\ \E file \in GazetteerFiles, type \in {Parks} : ConstructGazetteer(file, type)
    \/ /\ gz.kind = "none"
       /\ \E items \in ItemLists : ConstructAllGazetteer(items)
    \/ /\ gz.kind = "none"
       /\ \E file \in OldGazetteerFiles, type \in {Parks}, interpreter \in Interpreters :
             ConstructOldGazetteer(file, type, interpreter)
    \/ \E op \in GazetteerOps \cup AllGazetteerOps \cup OldGazetteerOps, phrase \in QueryPhrases :
          Query(op, phrase)
    \/ QueryReturn

SpecGaz == InitGaz /\ [][NextGaz]_vars

(***************************************************************************)
(* Feature generators that keep a Cache in front of a gazetteer query.     *)
(* generator is the class of the generator built, gz its gazetteer, store  *)
(* and max_size its cache.  lastOp records the latest convert_window call: *)
(* its window, its result, and for every token whether the key was in the  *)
(* cache when the token was reached, whether the gazetteer was asked, and  *)
(* the value used.                                                         *)
(***************************************************************************)
MaxWindow == 2

DefaultMaxSize == 100000

Generators ==
    {"AllGazetteerMinimumDistanceToken", "AllGazetteerClosestTokenType",
     "GazetteerMinimumDistanceToken", "GazetteerTokenPosition"}

AllGazetteerGenerators == {"AllGazetteerMinimumDistanceToken", "AllGazetteerClosestTokenType"}

(* the files the generator's gazetteer is built from, and the words of the *)
(* tokens of a window                                                      *)
GeneratorFiles == {<<>>, <<"a", " ", "b", "\n">>, <<"a", "b">>}

TokenWords == {<<"a">>, <<"b", "b">>}

Windows == UNION {[1..n -> TokenWords] : n \in 1..MaxWindow}

Digits == <<"0", "1", "2", "3", "4", "5", "6", "7", "8", "9">>

RECURSIVE decimal(_)
decimal(n) ==
    IF n < 10 THEN <<Digits[n + 1]>> ELSE Append(decimal(n \div 10), Digits[(n % 10) + 1])

DigitValue(c) == CHOOSE k \in 0..9 : Digits[k + 1] = c

IsDigit(c) == \E k \in 1..10 : Digits[k] = c

(* the digits of twice the number with these digits: i runs from the last  *)
(* digit to the first, carry is 0 or 1, done holds the digits found        *)
RECURSIVE doubleFrom(_, _, _, _)
doubleFrom(digits, i, carry, done) ==
    IF i = 0 THEN (IF carry = 1 THEN <<"1">> \o done ELSE done)
    ELSE LET twice == 2 * DigitValue(digits[i]) + carry
         IN doubleFrom(digits, i - 1, twice \div 10, <<Digits[(twice % 10) + 1]>> \o done)

(* n * 20 on the digits of n *)
times_twenty(digits) == Append(doubleFrom(digits, Len(digits), 0, <<>>), "0")

(* int(x) of the quotient n / d, d positive: the fraction is cut off, so   *)
(* the result is the nearest integer toward zero                           *)
trunc_div(n, d) == IF n >= 0 THEN n \div d ELSE 0 - ((0 - n) \div d)

(* the string repeated twenty times is an integer literal for int(): it    *)
(* holds digits and single underscores between digits only, so it starts   *)
(* and ends with a digit                                                   *)
is_int_literal(s) ==
    /\ Len(s) > 0
    /\ IsDigit(s[1]) /\ IsDigit(s[Len(s)])
    /\ \A i \in 1..Len(s) : IsDigit(s[i]) \/ s[i] = "_"
    /\ \A i \in 1..(Len(s) - 1) : ~(s[i] = "_" /\ s[i + 1] = "_")

RECURSIVE repeat(_, _)
repeat(s, n) == IF n = 0 THEN <<>> ELSE s \o repeat(s, n - 1)

RECURSIVE strip_zeros(_)
strip_zeros(digits) ==
    IF Len(digits) > 0 /\ digits[1] = "0" THEN strip_zeros(Tail(digits)) ELSE digits

(* int(s * 20) for a str s: the number its digits spell, and ValueError    *)
(* for a string that is no literal or that has more than 4300 digits, the  *)
(* limit of the conversion                                                 *)
int_of_repeated(s) ==
    LET digits == SelectSeq(s, IsDigit)
        number == strip_zeros(repeat(digits, 20))
    IN IF ~is_int_literal(s) \/ Len(digits) * 20 > 4300 THEN PyRaise("ValueError")
       ELSE IF number = <<>> THEN PyInt(0)
       ELSE PyLong(FALSE, number)

(* int(value * 20): a float is multiplied and its fraction cut off, an int *)
(* is multiplied, a bool counts as 1 or 0, a str is repeated twenty times  *)
(* and read as an integer literal, None cannot be multiplied; an exception *)
(* raised by the argument expression never reaches the function            *)
bucketize_minimum_distance(value) ==
    CASE value.type = "float" -> PyInt(trunc_div(value.val[1] * 20, value.val[2]))
      [] IsLong(value) -> PyLong(value.negative, times_twenty(value.digits))
      [] value.type = "int" ->
             IF value.val[1] >= -107374182 /\ value.val[1] <= 107374182
             THEN PyInt(value.val[1] * 20)
             ELSE PyLong(value.val[1] < 0,
                         times_twenty(decimal(IF value.val[1] < 0 THEN 0 - value.val[1]
                                              ELSE value.val[1])))
      [] value.type = "bool" -> PyInt(IF value.val[1] THEN 20 ELSE 0)
      [] value.type = "str" -> int_of_repeated(value.val)
      [] value.type = "NoneType" -> PyRaise("TypeError")
      [] OTHER -> value

(* the decimal text of an integer *)
int_str(n) == IF n < 0 THEN <<"-">> \o decimal(0 - n) ELSE decimal(n)

(* "%d" % v: a float loses its fraction, toward zero *)
format_d(v) ==
    CASE IsLong(v) -> PyStr((IF v.negative THEN <<"-">> ELSE <<>>) \o v.digits)
      [] v.type = "int" -> PyStr(int_str(v.val[1]))
      [] v.type = "float" -> PyStr(int_str(trunc_div(v.val[1], v.val[2])))
      [] v.type = "bool" -> PyStr(IF v.val[1] THEN <<"1">> ELSE <<"0">>)
      [] OTHER -> PyRaise("TypeError")

(* the digits after the point of a quotient r/d below one whose decimal    *)
(* expansion ends: long division                                          *)
RECURSIVE decimal_places(_, _)
decimal_places(r, d) ==
    IF r = 0 THEN <<>>
    ELSE <<Digits[((r * 10) \div d) + 1]>> \o decimal_places((r * 10) % d, d)

(* the digits after the point in repr of the double nearest to a quotient  *)
(* below one whose decimal expansion does not end, for the denominators    *)
(* 3, 6 and 7 (the shortest digits that read back as the same double)      *)
repr_places(v) ==
    CASE
         v = <<1, 3>> ->
             <<"3", "3", "3", "3", "3", "3", "3", "3", "3", "3", "3", "3", "3", "3", "3", "3">>
      [] v = <<2, 3>> ->
             <<"6", "6", "6", "6", "6", "6", "6", "6", "6", "6", "6", "6", "6", "6", "6", "6">>
      [] v = <<1, 6>> ->
             <<"1", "6", "6", "6", "6", "6", "6", "6", "6", "6", "6", "6", "6", "6", "6", "6", "6">>
      [] v = <<5, 6>> ->
             <<"8", "3", "3", "3", "3", "3", "3", "3", "3", "3", "3", "3", "3", "3", "3", "4">>
      [] v = <<1, 7>> ->
             <<"1", "4", "2", "8", "5", "7", "1", "4", "2", "8", "5", "7", "1", "4", "2", "8", "5">>
      [] v = <<2, 7>> ->
             <<"2", "8", "5", "7", "1", "4", "2", "8", "5", "7", "1", "4", "2", "8", "5", "7">>
      [] v = <<3, 7>> ->
             <<"4", "2", "8", "5", "7", "1", "4", "2", "8", "5", "7", "1", "4", "2", "8", "5", "5">>
      [] v = <<4, 7>> ->
             <<"5", "7", "1", "4", "2", "8", "5", "7", "1", "4", "2", "8", "5", "7", "1", "4">>
      [] v = <<5, 7>> ->
             <<"7", "1", "4", "2", "8", "5", "7", "1", "4", "2", "8", "5", "7", "1", "4", "3">>
      [] v = <<6, 7>> ->
             <<"8", "5", "7", "1", "4", "2", "8", "5", "7", "1", "4", "2", "8", "5", "7", "1">>

(* str(v) of a float that is not negative, the quotient v[1] / v[2] in    *)
(* lowest terms: a whole number, a quotient whose expansion ends, or a     *)
(* quotient below one of repr_places                                       *)
float_abs_str(v) ==
    IF v[1] % v[2] = 0 THEN decimal(v[1] \div v[2]) \o <<".", "0">>
    ELSE IF v[2] \in {2, 4, 5, 8, 10}
         THEN decimal(v[1] \div v[2]) \o <<".">> \o decimal_places(v[1] % v[2], v[2])
         ELSE <<"0", ".">> \o repr_places(v)

(* str(v) of a float *)
float_str(v) ==
    IF v[1] < 0 THEN <<"-">> \o float_abs_str(<<0 - v[1], v[2]>>) ELSE float_abs_str(v)

(* "%s" % v: str(v) *)
format_s(v) ==
    CASE v.type = "str" -> v
      [] v.type = "NoneType" -> PyStr(<<"N", "o", "n", "e">>)
      [] v.type = "bool" -> PyStr(IF v.val[1] THEN <<"T", "r", "u", "e">>
                                  ELSE <<"F", "a", "l", "s", "e">>)
      [] v.type = "float" -> PyStr(float_str(v.val))
      [] OTHER -> format_d(v)

(* the gazetteer query behind the cache, with what the generator does to   *)
(* its answer before caching it                                            *)
gazetteer_query(kind, g, word) ==
    CASE kind = "AllGazetteerMinimumDistanceToken" -> all_minimum_distance_to_token(g, word)
      [] kind = "AllGazetteerClosestTokenType" -> closest_token_types(g, word)
      [] kind = "GazetteerMinimumDistanceToken" ->
             bucketize_minimum_distance(minimum_distance_to_token(g, word))
      [] kind = "GazetteerTokenPosition" ->
             LET closest == closest_token(g, word)
             IN IF closest.type = "str"
                THEN token_position_in_name(g, closest.val)
                ELSE PyInt(-1)

(* the feature appended for a token: the format string, the gazetteer type *)
(* put in its braces, and the text of the formatted value                  *)
feature(kind, g, value) ==
    CASE kind = "AllGazetteerMinimumDistanceToken" ->
             [format |-> "g_minimum_distance_token=%d", type |-> <<>>, text |-> format_d(value)]
      [] kind = "AllGazetteerClosestTokenType" ->
             [format |-> "g_types_token=%s", type |-> <<>>, text |-> format_s(value)]
      [] kind = "GazetteerMinimumDistanceToken" ->
             [format |-> "g_token_distance_{}=%d", type |-> g.type, text |-> format_d(value)]
      [] kind = "GazetteerTokenPosition" ->
             [format |-> "g_token_position_{}=%d", type |-> g.type, text |-> format_d(value)]

PyValues == {"int", "float", "str", "bool", "NoneType"}

(* raised is the name of the exception that ended the call, "" if none *)
NoWindow == [cache |-> <<>>, result |-> <<>>, log |-> <<>>, raised |-> ""]

(* the loop of convert_window from the i-th token on: acc holds the cache  *)
(* store, the result list and the record of the tokens done                *)
RECURSIVE convert_tokens(_, _, _, _, _, _)
convert_tokens(kind, g, limit, tokens, i, acc) ==
    IF i > Len(tokens) \/ acc.raised # "" THEN acc
    ELSE LET word == tokens[i]
             cached == Cache_get(acc.cache, word, PyNone)
             asked == cached.type = "NoneType"
             value == IF asked THEN gazetteer_query(kind, g, word) ELSE cached
             text == feature(kind, g, value).text
             raised == IF value.type \notin PyValues THEN value.type
                       ELSE IF text.type # "str" THEN text.type ELSE ""
             cache1 == IF asked /\ value.type \in PyValues
                       THEN Cache_set(Cache_get_store(acc.cache, word), limit, word, value)
                       ELSE Cache_get_store(acc.cache, word)
             entry == [word |-> word, present |-> word \in Keys(acc.cache),
                       asked |-> asked, value |-> value]
         IN convert_tokens(kind, g, limit, tokens, i + 1,
                           [cache |-> cache1,
                            result |-> IF raised # "" THEN acc.result
                                       ELSE Append(acc.result, <<feature(kind, g, value)>>),
                            log |-> Append(acc.log, entry),
                            raised |-> raised])

convert_window(kind, g, s, limit, tokens) ==
    convert_tokens(kind, g, limit, tokens, 1, [NoWindow EXCEPT !.cache = s])

InitFeat == IdleTrie /\ IdleCache /\ IdleGaz

NewGenerator(kind, file, type, limit) ==
    /\ generator = "none"
    /\ generator' = kind
    /\ IF kind \in AllGazetteerGenerators
       THEN gz' = AllGazetteer(<<<<type, file>>>>)
       ELSE gz' = Gazetteer(file, type)
    /\ source' = <<<<type, file>>>>
    /\ store' = <<>>
    /\ max_size' = limit
    /\ arrival' = <<>>
    /\ lastOp' = [op |-> "init", key |-> <<>>, arg |-> PyNone, result |-> PyNone, popped |-> {}]
    /\ UNCHANGED <<qr, trieVars>>

ConvertWindow(tokens) ==
    /\ generator # "none"
    /\ LET done == convert_window(generator, gz, store, max_size, tokens)
       IN /\ store' = done.cache
          /\ arrival' = [j \in 1..Len(done.cache) |-> done.cache[j][1]]
          /\ lastOp' = [op |-> "convert_window", key |-> tokens, arg |-> PyNone,
                        result |-> IF done.raised # "" THEN PyRaise(done.raised) ELSE done.result,
                        popped |-> Keys(store) \ Keys(done.cache),
                        log |-> done.log]
    /\ UNCHANGED <<max_size, gz, source, qr, generator, trieVars>>

NextFeat ==
    \/ \E kind \in Generators, file \in GeneratorFiles, type \in {Characters},
          limit \in {1, MaxCapacity, DefaultMaxSize} :
          NewGenerator(kind, file, type, limit)
    \/ \E tokens \in Windows : ConvertWindow(tokens)

SpecFeat == InitFeat /\ [][NextFeat]_vars

(***************************************************************************)
(* Claims on the trie and the bounded search.                              *)
(***************************************************************************)
ReturnedWords == {found.results[i][1] : i \in 1..Len(found.results)}

WithinBudget == {w \in inserted : Lev(w, found.query) <= found.max_cost}

(* C1: the words search returns are exactly the stored words (the empty    *)
(* word included) whose Levenshtein distance to the query is <= maxCost.   *)
C1_SearchReturnsExactlyTheWordsWithinBudget ==
    found.done => ReturnedWords = WithinBudget

(* C2: every (word, d) pair search returns has d equal to the reference    *)
(* Levenshtein distance between word and the query.                        *)
C2_ReportedDistanceIsLevenshtein ==
    found.done =>
        \A i \in 1..Len(found.results) :
            found.results[i][2] = Lev(found.results[i][1], found.query)

C2_Witness ==
    /\ found.done
    /\ Len(found.query) = 3
    /\ \E i \in 1..Len(found.results) :
          found.results[i][2] = 2 /\ Len(found.results[i][1]) = 2
    /\ \E i \in 1..Len(found.results) : found.results[i][2] = 1

(***************************************************************************)
(* Claims on Cache.                                                        *)
(***************************************************************************)
(* C3: after set(k, v), whatever the value v (0, 0.0, "" and False         *)
(* included), get(k, default) returns v while k is still in the cache.     *)
C3_GetReturnsTheValueSet ==
    (lastOp.op = "get" /\ lastOp.key \in Keys(store)) =>
        lastOp.result = dict_get(store, lastOp.key)

(* C4: set evicts only when the cache already holds max_size keys, and     *)
(* then removes exactly one key, the one that entered the cache earliest   *)
(* among those present; the keys afterwards are the old keys without the   *)
(* evicted one, plus the key set.  get of a key that is not in the cache   *)
(* returns the caller's default.                                           *)
C4_EvictsOnlyAtCapacityTheEarliestInserted ==
    [][/\ lastOp'.op = "set" =>
            /\ Len(store) < max_size => lastOp'.popped = {}
            /\ lastOp'.popped # {} => Len(store) = max_size
            /\ Len(store) = max_size => lastOp'.popped = {arrival[1]}
            /\ Keys(store') = (Keys(store) \ lastOp'.popped) \cup {lastOp'.key}
       /\ (lastOp'.op = "get" /\ lastOp'.key \notin Keys(store)) =>
            lastOp'.result = lastOp'.arg]_vars

(* capacity + 1 distinct keys were set on an empty cache of capacity 2:    *)
(* the first one is gone, the two set after it are still there.            *)
C4_Witness ==
    /\ max_size = 2
    /\ lastOp.op = "set"
    /\ Cardinality(lastOp.popped) = 1
    /\ lastOp.key \notin lastOp.popped
    /\ Keys(store) \cap lastOp.popped = {}
    /\ Len(store) = 2
    /\ arrival = <<store[1][1], store[2][1]>>

(* C5: the number of keys in the cache never exceeds its capacity.         *)
C5_SizeNeverExceedsCapacity == Len(store) <= max_size

C5_Witness ==
    /\ Len(store) = max_size
    /\ lastOp.op = "set"
    /\ lastOp.popped # {}
    /\ lastOp.key = store[Len(store)][1]

(***************************************************************************)
(* Claims on Gazetteer and AllGazetteer.                                   *)
(***************************************************************************)
MinimumDistanceOps ==
    {"minimum_distance_to_token", "minimum_distance_to_official_name",
     "minimum_distance_to_synonym", "all_minimum_distance_to_token",
     "all_minimum_distance_to_entry"}

ClosestOps ==
    {"closest_token", "closest_official_name", "closest_entry_types", "closest_token_types"}

(* the trie each operation is said to search *)
TrieOf(op) ==
    CASE op \in {"minimum_distance_to_token", "all_minimum_distance_to_token",
                 "closest_token", "closest_token_types"} -> gz.tokens_trie
      [] op = "minimum_distance_to_official_name" -> gz.official_names_trie
      [] op \in {"minimum_distance_to_synonym", "closest_official_name"} -> gz.synonyms_trie
      [] op \in {"all_minimum_distance_to_entry", "closest_entry_types"} -> gz.entries_trie

StoredWords(t) == {t[n].word[1] : n \in {m \in DOMAIN t : t[m].word # None}}

(* max(1, floor(0.30 * len(phrase))) *)
Budget(phrase) == IF (3 * Len(phrase)) \div 10 >= 1 THEN (3 * Len(phrase)) \div 10 ELSE 1

SearchOf(op, phrase) == ToSet(search(TrieOf(op), lower(phrase), Budget(phrase)))

LeastDistance(results) ==
    CHOOSE d \in {r[2] : r \in results} : \A r \in results : d <= r[2]

One == PyFloat(1, 1)

(* C6: for a non-empty phrase each minimum_distance_to_* searches its own  *)
(* trie for the lower-cased phrase with budget max(1, floor(0.30 * len))   *)
(* and returns the least distance found divided by len(phrase), or 1.0     *)
(* when the search found nothing.                                          *)
C6_MinimumDistanceIsLeastOverLength ==
    (qr.op \in MinimumDistanceOps /\ Len(qr.phrase) > 0) =>
        LET results == SearchOf(qr.op, qr.phrase)
        IN /\ qr.result.type = "float"
           /\ results = {} => qr.result = One
           /\ results # {} =>
                /\ qr.result.val[2] > 0
                /\ qr.result.val[1] * Len(qr.phrase) = LeastDistance(results) * qr.result.val[2]

(* a phrase of length 7 has budget 2, and the nearest synonym is 2 edits   *)
(* away: the answer is 2/7                                                 *)
C6_Witness ==
    /\ qr.op = "minimum_distance_to_synonym"
    /\ Len(qr.phrase) = 7
    /\ qr.result = PyFloat(2, 7)
    /\ gz.kind = "Gazetteer"
    /\ Cardinality(gz.synonyms_set) >= 2

(* C7: for a non-empty phrase a minimum_distance_to_* answer lies in       *)
(* [0, 1], and it is 1.0 exactly when no stored string of the searched     *)
(* trie is within the phrase's budget.                                     *)
C7_OneMeansNoMatchWithinBudget ==
    (qr.op \in MinimumDistanceOps /\ Len(qr.phrase) > 0) =>
        /\ qr.result.type = "float"
        /\ 0 <= qr.result.val[1] /\ qr.result.val[1] <= qr.result.val[2]
        /\ qr.result = One <=>
              ~ \E w \in StoredWords(TrieOf(qr.op)) :
                    Lev(w, lower(qr.phrase)) <= Budget(qr.phrase)

(* C8: closest_token, closest_official_name, closest_entry_types and       *)
(* closest_token_types return a string for every phrase, and the string    *)
(* "NONE" whenever the bounded search finds nothing.                       *)
C8_ClosestReturnsAStringNONEWhenAbsent ==
    qr.op \in ClosestOps =>
        /\ qr.result.type = "str"
        /\ SearchOf(qr.op, qr.phrase) = {} => qr.result = PyStr(NONE)

(* the categories in whose file the entry (the token) occurs *)
LinesOf(k) == ToSet(readlines(source[k][2]))

EntryCategories(entry) ==
    {source[k][1] : k \in {j \in 1..Len(source) :
        \E line \in LinesOf(j) : entry \in ToSet(parse_entries(line))}}

TokenCategories(token) ==
    {source[k][1] : k \in {j \in 1..Len(source) :
        \E line \in LinesOf(j) : \E entry \in ToSet(parse_entries(line)) :
            token \in ToSet(split_ws(entry))}}

SortedOnce(list, categories) ==
    /\ ToSet(list) = categories
    /\ \A i \in 1..(Len(list) - 1) : str_le(list[i], list[i + 1]) /\ list[i] # list[i + 1]

NoRepeat(list) == \A i, j \in 1..Len(list) : i # j => list[i] # list[j]

(* C9: in a built AllGazetteer the category list of every entry and every  *)
(* token is the sorted set of the categories it occurs in, each once, so   *)
(* no "_"-joined label names a category twice.                             *)
C9_CategoryListsAreSortedSets ==
    /\ gz.kind = "AllGazetteer" =>
          /\ \A entry \in DOMAIN gz.entry_types :
                SortedOnce(gz.entry_types[entry], EntryCategories(entry))
          /\ \A token \in DOMAIN gz.token_types :
                SortedOnce(gz.token_types[token], TokenCategories(token))
    /\ (qr.op \in {"closest_entry_types", "closest_token_types"} /\ qr.result # PyStr(NONE)) =>
          NoRepeat(split(qr.result.val, "_"))

(* every line of the source is blank, or has no empty field *)
EmptyFieldsOnlyOnBlankLines ==
    \A k \in 1..Len(source) : \A line \in LinesOf(k) :
        strip(line) = <<>> \/ \A field \in ToSet(parse_entries(line)) : field # <<>>

(* C10: a blank source line is skipped at load: it adds the empty string   *)
(* to no set, map or trie, and contains_as_official_name("") and           *)
(* contains_as_synonym("") are false.                                      *)
C10_BlankLinesAreSkipped ==
    EmptyFieldsOnlyOnBlankLines =>
        /\ gz.kind = "Gazetteer" =>
              /\ <<>> \notin gz.official_names_set
              /\ <<>> \notin gz.synonyms_set
              /\ <<>> \notin DOMAIN gz.synonyms_to_official_name
              /\ <<>> \notin StoredWords(gz.official_names_trie)
              /\ <<>> \notin StoredWords(gz.synonyms_trie)
        /\ gz.kind = "AllGazetteer" =>
              /\ <<>> \notin DOMAIN gz.entry_types
              /\ <<>> \notin StoredWords(gz.entries_trie)
        /\ (qr.op \in {"contains_as_official_name", "contains_as_synonym"} /\ qr.phrase = <<>>) =>
              qr.result = PyBool(FALSE)

(***************************************************************************)
(* Claims on the case of letters and on entries and tokens that recur.     *)
(***************************************************************************)
SetMax(S) == CHOOSE m \in S : \A x \in S : x <= m

(* the file a Gazetteer was built from, line by line as loaded *)
SourceFile == readlines(source[1][2])

EntriesOfLine(n) == parse_entries(SourceFile[n])

LoadedOfficialNames == {EntriesOfLine(n)[1] : n \in 1..Len(SourceFile)}

LoadedEntries == UNION {ToSet(EntriesOfLine(n)) : n \in 1..Len(SourceFile)}

SameLetters(p1, p2) == lower(p1) = lower(p2)

(* C11: contains_as_official_name and contains_as_synonym give the same    *)
(* answer for two phrases that differ only in letter case; a name loaded   *)
(* with capitals is found under its capitalised and its lower-case form.   *)
C11_ContainsIgnoresCase ==
    (qr.op \in {"contains_as_official_name", "contains_as_synonym"}) =>
        /\ \A p2 \in QueryPhrases :
              SameLetters(p2, qr.phrase) => Call(gz, qr.op, p2) = qr.result
        /\ qr.op = "contains_as_official_name" =>
              qr.result = PyBool(lower(qr.phrase) \in LoadedOfficialNames)
        /\ qr.op = "contains_as_synonym" =>
              qr.result = PyBool(lower(qr.phrase) \in LoadedEntries)

(* the name written "Ab" in the file is found under the phrase "Ab"        *)
C11_Witness ==
    /\ qr.op = "contains_as_official_name"
    /\ qr.phrase = <<"A", "b">>
    /\ qr.result = PyBool(TRUE)
    /\ \E n \in 1..Len(SourceFile) :
          Len(SourceFile[n]) >= 2 /\ SubSeq(SourceFile[n], 1, 2) = <<"A", "b">>

(* C12: token_position_in_name returns the same position for two tokens    *)
(* that differ only in letter case.                                        *)
C12_TokenPositionIgnoresCase ==
    qr.op = "token_position_in_name" =>
        \A p2 \in QueryPhrases :
            SameLetters(p2, qr.phrase) => token_position_in_name(gz, p2) = qr.result

LinesWithEntry(entry) == {n \in 1..Len(SourceFile) : entry \in ToSet(EntriesOfLine(n))}

(* the first field of the last line that holds the entry *)
CanonicalOfLastLine(entry) == EntriesOfLine(SetMax(LinesWithEntry(entry)))[1]

(* C16: an entry that appears on several lines resolves, in the            *)
(* synonym-to-canonical map, to the first field of the last such line, and *)
(* closest_official_name queried with exactly that entry returns that      *)
(* canonical name.                                                         *)
C16_RecurringEntryResolvesToLastLine ==
    gz.kind = "Gazetteer" =>
        \A entry \in LoadedEntries :
            Cardinality(LinesWithEntry(entry)) >= 2 =>
                /\ entry \in DOMAIN gz.synonyms_to_official_name
                /\ gz.synonyms_to_official_name[entry] = CanonicalOfLastLine(entry)
                /\ (qr.op = "closest_official_name" /\ qr.phrase = entry) =>
                      qr.result = PyStr(CanonicalOfLastLine(entry))

FieldsWithToken(token, n) ==
    {i \in 1..Len(EntriesOfLine(n)) : token \in ToSet(split_ws(EntriesOfLine(n)[i]))}

LinesWithToken(token) == {n \in 1..Len(SourceFile) : FieldsWithToken(token, n) # {}}

(* the 0-based place of the last occurrence of the token in the last field *)
(* of the last line that holds it, -1 if no loaded field holds it          *)
LastPosition(token) ==
    IF LinesWithToken(token) = {} THEN -1
    ELSE LET n == SetMax(LinesWithToken(token))
             tokens == split_ws(EntriesOfLine(n)[SetMax(FieldsWithToken(token, n))])
         IN SetMax({k \in 1..Len(tokens) : tokens[k] = token}) - 1

(* C17: token_position_in_name(token) is -1 when no loaded field holds the *)
(* token, and otherwise the 0-based position of the token in the last      *)
(* processed field that holds it (lines in file order, fields left to      *)
(* right, last occurrence in the field).  Fields are compared as loaded,   *)
(* that is lower-cased and trimmed.                                        *)
C17_TokenPositionIsLastWritten ==
    qr.op = "token_position_in_name" => qr.result = PyInt(LastPosition(qr.phrase))

(* "a" is second in the field "b a" and first in the later field "a":      *)
(* the later field decides                                                 *)
C17_Witness ==
    /\ qr.op = "token_position_in_name"
    /\ qr.phrase = <<"a">>
    /\ qr.result = PyInt(0)
    /\ Len(SourceFile) >= 1
    /\ SourceFile[Len(SourceFile)] = <<"b", " ", "a", ",", "a", "\n">>

(***************************************************************************)
(* Further claims on the trie.                                             *)
(***************************************************************************)
(* C13: inserting a word that is already stored changes nothing: nodes and *)
(* terminal values are the same before and after, and so is every search   *)
(* result.  search reads nothing but the trie, so an unchanged trie gives  *)
(* unchanged results for every query; they are compared here for the       *)
(* re-inserted word as the query, at every budget.                         *)
C13_ReinsertChangesNothing ==
    [][found'.again =>
          /\ trie' = trie
          /\ inserted' = inserted
          /\ \A max_cost \in 0..MaxCost :
                search(trie', found'.query, max_cost) = search(trie, found'.query, max_cost)]_vars

(* a word was inserted again while a longer word runs through its node *)
C13_Witness ==
    /\ found.again
    /\ found.query \in inserted
    /\ \E w \in inserted : Len(w) > Len(found.query) /\ SubSeq(w, 1, Len(found.query)) = found.query
    /\ Len(found.query) >= 1

(* C14: for maxCost1 < maxCost2 every (word, distance) pair search returns *)
(* at maxCost1 is also returned at maxCost2.  Every trie, query and budget *)
(* is compared with the next budget; inclusion from one budget to the next *)
(* at every budget gives inclusion for every larger budget.                *)
C14_LargerBudgetKeepsResults ==
    found.done =>
        ToSet(found.results) \subseteq ToSet(search(trie, found.query, found.max_cost + 1))

(* a search at budget 0 found the query itself, and budget 1 finds more *)
C14_Witness ==
    /\ found.done
    /\ found.max_cost = 0
    /\ Len(found.results) = 1
    /\ Len(search(trie, found.query, 1)) = 2

(***************************************************************************)
(* Further claims on AllGazetteer.                                         *)
(***************************************************************************)
TypesOf(op) == IF op = "closest_entry_types" THEN gz.entry_types ELSE gz.token_types

(* the stored strings of the searched trie within the phrase's budget *)
StoredWithinBudget(op, phrase) ==
    {w \in StoredWords(TrieOf(op)) : Lev(w, lower(phrase)) <= Budget(phrase)}

(* C15: for a non-empty phrase closest_entry_types (closest_token_types)   *)
(* returns the "_"-joined category list of a stored entry (token) at the   *)
(* least distance from the lower-cased phrase among those within the       *)
(* budget max(1, floor(0.30 * len)), and "NONE" exactly when no stored     *)
(* entry (token) is within the budget.                                     *)
C15_ClosestTypesOfANearestStoredString ==
    (qr.op \in {"closest_entry_types", "closest_token_types"} /\ Len(qr.phrase) > 0) =>
        LET within == StoredWithinBudget(qr.op, qr.phrase)
        IN /\ qr.result = PyStr(NONE) <=> within = {}
           /\ within # {} =>
                \E w \in within :
                    /\ \A v \in within : Lev(w, lower(qr.phrase)) <= Lev(v, lower(qr.phrase))
                    /\ w \in DOMAIN TypesOf(qr.op)
                    /\ qr.result = PyStr(join(<<"_">>, TypesOf(qr.op)[w]))

(***************************************************************************)
(* Claims on the earlier Gazetteer.                                        *)
(***************************************************************************)
OldTrieOf(op) ==
    IF op = "old_minimum_distance_to_official_name"
    THEN gz.official_names_trie ELSE gz.synonyms_trie

(* the distances of the stored names within 5 edits of the phrase *)
OldDistancesWithin(op, phrase) ==
    {Lev(w, phrase) : w \in {v \in StoredWords(OldTrieOf(op)) : Lev(v, phrase) <= OldMaxCost}}

(* C18: the earlier minimum_distance_to_official_name and                  *)
(* minimum_distance_to_synonym return the least Levenshtein distance from  *)
(* the phrase to a stored name within 5 edits, and 999 when no stored name *)
(* is within 5 edits.                                                      *)
C18_EarlierMinimumDistanceIsTheMinimum ==
    qr.op \in OldGazetteerOps =>
        LET distances == OldDistancesWithin(qr.op, qr.phrase)
        IN /\ distances = {} => qr.result = PyInt(NoMatch)
           /\ distances # {} =>
                /\ qr.result.type = "int"
                /\ qr.result.val[1] \in distances
                /\ \A d \in distances : qr.result.val[1] <= d

(***************************************************************************)
(* Further claims on Cache.                                                *)
(***************************************************************************)
(* C19: get never changes the store: the keys, their values and their      *)
(* order of eviction are the same before and after.  So after a read of    *)
(* the earliest-inserted key of a full cache, a set of a new key still     *)
(* evicts that key.                                                        *)
C19_GetLeavesTheStoreAlone ==
    [][lastOp'.op = "get" =>
          /\ store' = store
          /\ arrival' = arrival
          /\ (Len(store') = max_size /\ lastOp'.key = arrival'[1]) =>
                \A key \in CacheKeys \ Keys(store'), value \in CacheValues :
                    lastOp'.key \notin Keys(Cache_set(store', max_size, key, value))]_vars

(* the earliest-inserted key of a full cache of capacity 2 was read, and   *)
(* its value was returned                                                  *)
C19_Witness ==
    /\ lastOp.op = "get"
    /\ max_size = 2
    /\ Len(store) = 2
    /\ lastOp.key = arrival[1]
    /\ lastOp.key = store[1][1]
    /\ lastOp.result = store[1][2]
    /\ lastOp.result # lastOp.arg

(***************************************************************************)
(* Claims on the cache-fronted feature generators.                         *)
(***************************************************************************)
(* C20: a generator memoizes every result: a token whose key is in the     *)
(* cache when it is reached (it was queried before, and neither evicted    *)
(* nor cleared since) is answered from the cache, the gazetteer is not     *)
(* asked again, whatever the cached value (0, 0.0 and position 0 too).     *)
C20_EveryResultIsMemoized ==
    lastOp.op = "convert_window" =>
        \A i \in 1..Len(lastOp.log) :
            lastOp.log[i].present => ~lastOp.log[i].asked

(***************************************************************************)
(* Claims that compare the two searches.                                   *)
(***************************************************************************)
(* C21: the recursive search of the earlier module and the search with an  *)
(* explicit stack return the same set of (word, distance) pairs for every  *)
(* trie, query and max cost; only the order of the list may differ.  The   *)
(* earlier module is Python 2 code (it calls xrange): the recursive search *)
(* is the one run by an interpreter that defines xrange, in whichever      *)
(* order that interpreter iterates a dict.                                 *)
C21_BothSearchesReturnTheSamePairs ==
    (found.done /\ "interpreter" \in DOMAIN found /\ found.interpreter.xrange) =>
        LET stacked == search(trie, found.query, found.max_cost)
        IN /\ ~found.raised
           /\ ToSet(found.results) = ToSet(stacked)
           /\ Len(found.results) = Len(stacked)

(* under Python 2 the recursive search has returned two pairs, one of them *)
(* for a word two letters deep, in another order than the search with the  *)
(* stack returns them                                                      *)
C21_Witness ==
    /\ found.done /\ "interpreter" \in DOMAIN found
    /\ found.interpreter = Python2
    /\ Len(found.results) = 2
    /\ \E i \in 1..2 : Len(found.results[i][1]) = 2 /\ found.results[i][2] > 0
    /\ found.results # search(trie, found.query, found.max_cost)

(***************************************************************************)
(* Claims on the shape of the trie and on the traversal.                   *)
(***************************************************************************)
(* the node of the trie that holds the prefix of the word of length k *)
Prefix(word, k) == SubSeq(word, 1, k)

(* C24: after any sequence of inserts every node with a terminal value     *)
(* holds the string spelled by the letters on its path from the root, the  *)
(* terminal values are exactly the inserted words, and words that share a  *)
(* prefix share the nodes of that prefix: a node has one child per letter, *)
(* and every prefix of an inserted word is one node reached by that path.  *)
C24_TerminalValuesSpellTheirPath ==
    /\ \A n \in DOMAIN trie : trie[n].word # None => trie[n].word[1] = n
    /\ StoredWords(trie) = inserted
    /\ \A n \in DOMAIN trie :
          /\ \A i, j \in 1..Len(trie[n].children) :
                i # j => trie[n].children[i] # trie[n].children[j]
          /\ \A j \in 1..Len(trie[n].children) : Append(n, trie[n].children[j]) \in DOMAIN trie
          /\ n # <<>> =>
                /\ Prefix(n, Len(n) - 1) \in DOMAIN trie
                /\ n[Len(n)] \in ToSet(trie[Prefix(n, Len(n) - 1)].children)
    /\ \A w \in inserted : \A k \in 0..Len(w) : Prefix(w, k) \in DOMAIN trie

(* two words that share their first letter and differ in the second are    *)
(* stored, under one node for the shared letter                            *)
C24_Witness ==
    /\ \E w1, w2 \in inserted :
          /\ w1 # w2 /\ Len(w1) = 2 /\ Len(w2) = 2
          /\ w1[1] = w2[1]
          /\ Len(trie[<<w1[1]>>].children) = 2
    /\ Len(trie[<<>>].children) = 1

(* the row the search computed for the node, in a search that reached it *)
RowOf(node) == (CHOOSE r \in ToSet(found.rows) : r.node = node).row

Reached == {r.node : r \in ToSet(found.rows)}

(* C22: the children of a node are visited only if the least value of the  *)
(* node's row is <= maxCost: every node a row was computed for is a child  *)
(* of the root, or the child of a node that was reached and whose row has  *)
(* a value <= maxCost; so no row is computed below a node whose row        *)
(* minimum exceeds maxCost.                                                *)
C22_ChildrenVisitedOnlyWithinBudget ==
    found.done =>
        /\ \A n \in Reached :
              Len(n) >= 2 =>
                 /\ Prefix(n, Len(n) - 1) \in Reached
                 /\ MinOfSeq(RowOf(Prefix(n, Len(n) - 1))) <= found.max_cost
        /\ \A n \in Reached :
              MinOfSeq(RowOf(n)) > found.max_cost =>
                 \A m \in Reached : ~(Len(m) > Len(n) /\ Prefix(m, Len(n)) = n)
        /\ Len(found.rows) = Cardinality(Reached)

(* a node was reached whose row exceeds the budget everywhere, and its     *)
(* child in the trie was not reached                                       *)
C22_Witness ==
    /\ found.done
    /\ \E n \in Reached :
          /\ MinOfSeq(RowOf(n)) > found.max_cost
          /\ \E m \in DOMAIN trie : Len(m) = Len(n) + 1 /\ Prefix(m, Len(n)) = n /\ m \notin Reached

(* the row of the parent of a reached node: the first row for a child of   *)
(* the root                                                                *)
ParentRow(n) ==
    IF Len(n) = 1 THEN FirstRow(found.query) ELSE RowOf(Prefix(n, Len(n) - 1))

(* what the traversal reports within the budget when it prunes nothing:    *)
(* with a budget no row can exceed, every node is expanded                 *)
UnprunedWithinBudget ==
    {r \in ToSet(search(trie, found.query, MaxWordLen + MaxCost)) : r[2] <= found.max_cost}

(* C30: along every path the search explores, the least value of the row   *)
(* never decreases from a node to its child; so every word stored at or    *)
(* below a node whose row minimum exceeds maxCost is farther than maxCost  *)
(* from the query, and the pruned search reports every pair the unpruned   *)
(* traversal reports within the budget.                                    *)
C30_RowMinimumNeverDecreases ==
    found.done =>
        /\ \A n \in Reached : MinOfSeq(ParentRow(n)) <= MinOfSeq(RowOf(n))
        /\ \A n \in Reached :
              MinOfSeq(RowOf(n)) > found.max_cost =>
                 \A w \in inserted :
                     (Len(w) >= Len(n) /\ Prefix(w, Len(n)) = n) =>
                         Lev(w, found.query) > found.max_cost
        /\ ToSet(found.results) = UnprunedWithinBudget

(* a subtree holding a stored word was pruned, and a word was still found *)
C30_Witness ==
    /\ found.done
    /\ Len(found.results) >= 1
    /\ \E n \in Reached :
          /\ MinOfSeq(RowOf(n)) > found.max_cost
          /\ \E w \in inserted : Len(w) > Len(n) /\ Prefix(w, Len(n)) = n /\ w \notin Reached

(***************************************************************************)
(* Frame and error claims.                                                 *)
(***************************************************************************)
(* C23: after construction no query method (and so no search it runs)      *)
(* changes a trie, set or map of the gazetteer: the built state is the     *)
(* same before and after every query, hence after any sequence of them,    *)
(* and the answer is the one the same call gives on the state left behind. *)
C23_QueriesLeaveTheBuiltStateAlone ==
    [][(qr.op = "none" /\ qr'.op # "none") =>
          /\ gz' = gz
          /\ source' = source
          /\ qr'.result = Call(gz', qr'.op, qr'.phrase)]_vars

(* a query that ran a search and then read a map has answered *)
C23_Witness ==
    /\ gz.kind = "Gazetteer"
    /\ qr.op = "closest_official_name"
    /\ qr.phrase = <<"b", "b">>
    /\ qr.result \in {PyStr(<<"a", "b">>), PyStr(<<"b", " ", "a">>)}

(* C25: set of a key that is already in the cache only replaces its value: *)
(* no other key leaves the cache, whatever the size, at capacity too.      *)
C25_SetOfAPresentKeyEvictsNothing ==
    [][(lastOp'.op = "set" /\ lastOp'.key \in Keys(store)) =>
          /\ Keys(store') = Keys(store)
          /\ \A key \in Keys(store) \ {lastOp'.key} :
                dict_get(store', key) = dict_get(store, key)
          /\ dict_get(store', lastOp'.key) = lastOp'.arg]_vars

(* C26: for the zero-length phrase a minimum_distance_to_* operation       *)
(* returns 1.0 when the searched trie stores no word of length 1, and      *)
(* fails with ZeroDivisionError when it stores one; it returns no other    *)
(* value.                                                                  *)
C26_EmptyPhraseIsOneOrDivisionByZero ==
    (qr.op \in MinimumDistanceOps /\ qr.phrase = <<>>) =>
        IF \E w \in StoredWords(TrieOf(qr.op)) : Len(w) = 1
        THEN qr.result = PyRaise("ZeroDivisionError")
        ELSE qr.result = One

(* the division by zero happened on a trie with a one-letter token, and    *)
(* the trie of full entries of the same gazetteer has no one-letter word   *)
C26_Witness ==
    /\ gz.kind = "Gazetteer"
    /\ qr.op = "minimum_distance_to_token"
    /\ qr.phrase = <<>>
    /\ qr.result = PyRaise("ZeroDivisionError")
    /\ minimum_distance_to_synonym(gz, <<>>) = One
    /\ StoredWords(gz.synonyms_trie) # {}

(***************************************************************************)
(* Claims that relate the two gazetteers, the tries and their maps, and    *)
(* the cache and the query behind it.                                      *)
(***************************************************************************)
(* a <= b for two floats held as fractions with positive denominators *)
FloatLe(a, b) == a.val[1] * b.val[2] <= b.val[1] * a.val[2]

FloatMin(S) == CHOOSE a \in S : \A b \in S : FloatLe(a, b)

(* the Gazetteer of the k-th category of the mapping the AllGazetteer was  *)
(* built from                                                              *)
CategoryGazetteer(k) == Gazetteer(source[k][2], source[k][1])

(* C27: an AllGazetteer and one Gazetteer per category being built from    *)
(* the same mapping, for every non-empty phrase the AllGazetteer's         *)
(* minimum_distance_to_token is the least of the Gazetteers'               *)
(* minimum_distance_to_token, and its minimum_distance_to_entry the least  *)
(* of their minimum_distance_to_synonym.                                   *)
C27_AllGazetteerIsTheMinimumOverCategories ==
    (gz.kind = "AllGazetteer" /\ Len(source) >= 1 /\ Len(qr.phrase) > 0) =>
        /\ qr.op = "all_minimum_distance_to_token" =>
              qr.result = FloatMin({minimum_distance_to_token(CategoryGazetteer(k), qr.phrase) :
                                       k \in 1..Len(source)})
        /\ qr.op = "all_minimum_distance_to_entry" =>
              qr.result = FloatMin({minimum_distance_to_synonym(CategoryGazetteer(k), qr.phrase) :
                                       k \in 1..Len(source)})

(* two categories, and only the second one holds a token near the phrase *)
C27_Witness ==
    /\ gz.kind = "AllGazetteer"
    /\ Len(source) = 2
    /\ qr.op = "all_minimum_distance_to_token"
    /\ qr.phrase = <<"b", "b">>
    /\ qr.result = PyFloat(1, 2)
    /\ minimum_distance_to_token(CategoryGazetteer(1), qr.phrase) = One
    /\ minimum_distance_to_token(CategoryGazetteer(2), qr.phrase) = PyFloat(1, 2)

(* C28: after loading, every word of the Gazetteer's synonym trie is a key *)
(* of synonyms_to_official_name with a value in the official-name set, so  *)
(* closest_official_name never fails on the lookup and a name it finds is  *)
(* an official name; every word of the AllGazetteer's entry and token trie *)
(* has a non-empty category list, so closest_entry_types and               *)
(* closest_token_types return "NONE" only when the search found nothing.   *)
C28_SearchedWordsAreKeysOfTheMap ==
    /\ gz.kind = "Gazetteer" =>
          \A w \in StoredWords(gz.synonyms_trie) :
              /\ w \in DOMAIN gz.synonyms_to_official_name
              /\ gz.synonyms_to_official_name[w] \in gz.official_names_set
    /\ qr.op = "closest_official_name" =>
          /\ qr.result.type = "str"
          /\ SearchOf(qr.op, qr.phrase) # {} => qr.result.val \in gz.official_names_set
    /\ gz.kind = "AllGazetteer" =>
          /\ \A w \in StoredWords(gz.entries_trie) :
                w \in DOMAIN gz.entry_types /\ Len(gz.entry_types[w]) > 0
          /\ \A w \in StoredWords(gz.tokens_trie) :
                w \in DOMAIN gz.token_types /\ Len(gz.token_types[w]) > 0
    /\ (qr.op \in {"closest_entry_types", "closest_token_types"} /\ qr.result = PyStr(NONE)) =>
          SearchOf(qr.op, qr.phrase) = {}

(* the search found a synonym that is not itself an official name, and the *)
(* lookup gave its official name                                           *)
C28_Witness ==
    /\ gz.kind = "Gazetteer"
    /\ qr.op = "closest_official_name"
    /\ qr.phrase = <<"b">>
    /\ qr.result = PyStr(<<"a", "b">>)
    /\ <<"b">> \notin gz.official_names_set

(* C29: through a cache-fronted generator, at any cache capacity >= 1, the *)
(* value used for each token is the value the gazetteer query behind the   *)
(* cache returns for that token when called directly, and the feature      *)
(* appended is the one made from that value.                               *)
C29_CachedValueIsTheDirectValue ==
    lastOp.op = "convert_window" =>
        /\ Len(lastOp.log) = Len(lastOp.key)
        /\ Len(lastOp.result) = Len(lastOp.key)
        /\ \A i \in 1..Len(lastOp.log) :
              /\ lastOp.log[i].word = lastOp.key[i]
              /\ lastOp.log[i].value = gazetteer_query(generator, gz, lastOp.key[i])
              /\ lastOp.result[i] =
                    <<feature(generator, gz, gazetteer_query(generator, gz, lastOp.key[i]))>>

(* in a cache of capacity 1 that held another key, a token evicted that    *)
(* key and was then served from the cache                                  *)
C29_Witness ==
    /\ lastOp.op = "convert_window"
    /\ max_size = 1
    /\ lastOp.popped # {}
    /\ \E i \in 1..Len(lastOp.log) : lastOp.log[i].present /\ ~lastOp.log[i].asked

====
